---- MODULE Spec2Model ----
(***************************************************************************)
(* octoevents: the event reconciliation run (fetchAndUpdateEvents), the    *)
(* two source fetchers, the ETag cache and the event store.                *)
(*                                                                         *)
(* A time.Time value is a record [sec, ms, off]: the instant in whole      *)
(* seconds, its millisecond part, and the zone offset of its location      *)
(* (seconds east of UTC).  Formatting prints the wall clock sec + off.     *)
(***************************************************************************)
EXTENDS Integers, Sequences, FiniteSets, TLC

\* ---------------------------------------------------------------- bounds
MaxSec  == 2    \* instants offered by the sources are 1..MaxSec
MaxResp == 2    \* a source response carries at most MaxResp events
MaxRuns == 2    \* runs of fetchAndUpdateEvents on the same output file
MaxFetches == 2 \* calls of fetchDavidKendallData on the same cache
MaxCallers == 2 \* goroutines calling Run on the same AuthenticatedClient
MaxCalls == 2   \* calls of Run by one caller
MaxNow == 2     \* the clock runs from 0 to MaxNow, in units of 5 minutes

Secs    == 1..MaxSec
Millis  == {0, 500}
Offsets == {0, 1}

VARIABLES
  file,            \* the output file (config.OutputFile)
  etagFile,        \* .cache/etag
  eventsFile,      \* .cache/david_events.json
  pc,              \* position of fetchAndUpdateEvents: idle, collect, merge
  existingEvents,  \* local existingEvents
  octoTask,        \* goroutine fetching Octopus: none, running, done
  davidTask,       \* goroutine fetching David Kendall's data
  results,         \* the buffered channel `results`
  collected,       \* loop counter i of the collector
  octopusEvents,   \* local octopusEvents
  externalEvents,  \* local externalEvents
  last,            \* record of the run that returned last
  runs,            \* number of runs started
  fetched,         \* record of the last call of fetchDavidKendallData
  saved,           \* a dataset, the file saveEvents made of it, its reload
  config,          \* a call of loadConfig: its inputs and what it returned
  c,               \* an AuthenticatedClient: token, tokenExpiry
  mutex,           \* c.mutex, a sync.RWMutex: its writer and its readers
  calls,           \* the callers of c.Run: position and locals of each
  now,             \* time.Now()
  issued,          \* the tokens the client obtained, oldest first
  trial            \* one set of inputs of a run: what the collector and
                   \* the merge make of it

vars == <<file, etagFile, eventsFile, pc, existingEvents, octoTask, davidTask,
          results, collected, octopusEvents, externalEvents, last, runs,
          fetched, saved, config, c, mutex, calls, now, issued, trial>>

\* the variables of the client
clientVars == <<c, mutex, calls, now, issued>>

\* the variables of the run, the cache, the store and the configuration
runVars == <<file, etagFile, eventsFile, pc, existingEvents, octoTask,
             davidTask, results, collected, octopusEvents, externalEvents,
             last, runs, fetched, saved, config, trial>>

\* ----------------------------------------------------------- time.Time
Time(sec, ms, off) == [sec |-> sec, ms |-> ms, off |-> off]

\* t.Before(u): comparison of instants, whatever the locations
Before(t, u) == t.sec * 1000 + t.ms < u.sec * 1000 + u.ms

\* t.Equal(u): same instant
SameInstant(t, u) == t.sec = u.sec /\ t.ms = u.ms

\* t.Format(time.RFC3339): wall clock to the second, then the zone offset;
\* the fraction of the second is not printed
FormatRFC3339(t) == <<t.sec + t.off, t.off>>

\* A timestamp text of the published format: wall clock and milliseconds
\* followed by a literal Z; ok = FALSE is a text that does not parse
Text(wall, ms) == [ok |-> TRUE, wall |-> wall, ms |-> ms]
BadText == [ok |-> FALSE, wall |-> 0, ms |-> 0]

\* a format of the wall clock to the second only
FormatSecondsZ(t) == Text(t.sec + t.off, 0)

\* t.Format("2006-01-02T15:04:05.000Z"): the wall clock of t's own location
\* with milliseconds; the Z of the layout is a literal
FormatMillisZ(t) == Text(t.sec + t.off, t.ms)

\* time.Parse("2006-01-02T15:04:05.000Z", s): a UTC time
ParseOk(s) == s.ok
ParseMillisZ(s) == Time(s.wall, s.ms, 0)

\* ---------------------------------------------------------------- Event
\* IsTest is a *bool: "nil", "true" or "false"
Event(start, end, code, isTest) ==
  [StartAt |-> start, EndAt |-> end, Code |-> code, IsTest |-> isTest]

OutputEvent(start, end, code, isTest) ==
  [Start |-> start, End |-> end, Code |-> code, IsTest |-> isTest]

Range(s) == {s[i] : i \in DOMAIN s}

\* the map key built by hasChanges and mergeEvents
eventKey(event) ==
  <<FormatRFC3339(event.StartAt), FormatRFC3339(event.EndAt)>>

\* a sort.Slice that orders nothing: any arrangement of the elements
RECURSIVE sortSliceUnordered(_, _)
sortSliceUnordered(events, I) ==
  IF I = {} THEN {<<>>}
  ELSE UNION { { <<events[i]>> \o s : s \in sortSliceUnordered(events, I \ {i}) } :
               i \in I }

\* sort.Slice(events, StartAt.Before) over the elements at the indices I:
\* the sort is not stable (and mergeEvents feeds it in map iteration order),
\* so every order without a later-before-earlier pair is a possible outcome
RECURSIVE sortSlice(_, _)
sortSlice(events, I) ==
  IF I = {} THEN {<<>>}
  ELSE UNION { { <<events[i]>> \o s : s \in sortSlice(events, I \ {i}) } :
               i \in { j \in I : \A k \in I :
                         ~Before(events[k].StartAt, events[j].StartAt) } }

\* a change detection that always reports a change
hasChangesAlways(existing, new) == TRUE

\* change detection without the comparison of lengths
hasChangesKeysOnly(existing, new) ==
  \E i \in DOMAIN new :
    eventKey(new[i]) \notin {eventKey(existing[j]) : j \in DOMAIN existing}

hasChanges(existing, new) ==
  IF Len(existing) # Len(new) THEN TRUE
  ELSE \E i \in DOMAIN new :
         eventKey(new[i]) \notin {eventKey(existing[j]) : j \in DOMAIN existing}

\* the indices of existing \o new whose event is the one left in eventMap:
\* a later assignment to the same key replaces the earlier one
eventMapKept(all) ==
  { i \in DOMAIN all :
      \A j \in DOMAIN all : j > i => eventKey(all[j]) # eventKey(all[i]) }

\* the set of slices mergeEvents may return
mergeEvents(existing, new) ==
  LET all == existing \o new
  IN  sortSlice(all, eventMapKept(all))

\* codes counted from 0
setCodesFromZero(events) ==
  [i \in DOMAIN events |-> [events[i] EXCEPT !.Code = ToString(i - 1)]]

setCodes(events) ==
  [i \in DOMAIN events |-> [events[i] EXCEPT !.Code = ToString(i)]]

\* the set of slices assignSequentialCodes may return
assignSequentialCodes(events) ==
  { setCodes(s) : s \in sortSlice(events, DOMAIN events) }

convertToOutputFormat(events) ==
  [i \in DOMAIN events |->
     OutputEvent(FormatMillisZ(events[i].StartAt),
                 FormatMillisZ(events[i].EndAt),
                 events[i].Code, events[i].IsTest)]

\* ----------------------------------------------------------- EventStore
AbsentFile == [state |-> "absent", data |-> <<>>]
DataFile(data) == [state |-> "ok", data |-> data]
CorruptFile == [state |-> "corrupt", data |-> <<>>]

fromOutputEvent(o) ==
  Event(ParseMillisZ(o.Start), ParseMillisZ(o.End), o.Code, o.IsTest)

\* a loadExistingEvents whose caller cannot tell a missing file from a file
\* that does not decode
loadExistingEventsStrict(f) ==
  IF f.state = "ok" /\ \A i \in DOMAIN f.data :
                         ParseOk(f.data[i].Start) /\ ParseOk(f.data[i].End)
  THEN [events |-> [i \in DOMAIN f.data |-> fromOutputEvent(f.data[i])],
        err |-> "nil"]
  ELSE [events |-> <<>>, err |-> "decode"]

\* a loadExistingEvents that takes a file that does not decode for an empty
\* dataset
loadExistingEventsLenient(f) ==
  IF f.state = "ok" /\ \A i \in DOMAIN f.data :
                         ParseOk(f.data[i].Start) /\ ParseOk(f.data[i].End)
  THEN [events |-> [i \in DOMAIN f.data |-> fromOutputEvent(f.data[i])],
        err |-> "nil"]
  ELSE [events |-> <<>>, err |-> "notexist"]

\* loadExistingEvents: err is "notexist", "decode" or "nil"
loadExistingEvents(f) ==
  IF f.state = "absent" THEN [events |-> <<>>, err |-> "notexist"]
  ELSE IF f.state = "corrupt" THEN [events |-> <<>>, err |-> "decode"]
  ELSE IF \E i \in DOMAIN f.data :
            ~ParseOk(f.data[i].Start) \/ ~ParseOk(f.data[i].End)
       THEN [events |-> <<>>, err |-> "decode"]
  ELSE [events |-> [i \in DOMAIN f.data |-> fromOutputEvent(f.data[i])],
        err |-> "nil"]

\* saveEvents with a write that succeeds
saveEvents(events) == DataFile(convertToOutputFormat(events))

\* saveEvents on the output file f, os.WriteFile ending with outcome: "ok";
\* "failed", the file could not be opened and is as before; "truncated", the
\* file was opened (and so emptied) and the content written in part at most
saveEventsTo(f, events, outcome) ==
  IF outcome = "ok" THEN saveEvents(events)
  ELSE IF outcome = "failed" THEN f
  ELSE CorruptFile

\* ------------------------------------------------------ ConditionalCache
AbsentCache == [state |-> "absent", data |-> <<>>]
\* a snapshot file whose content does not decode (such as an empty file)
CorruptCache == [state |-> "corrupt", data |-> <<>>]

\* how an os.WriteFile call ends: "ok"; "failed", the file could not be
\* opened and is as before; "truncated", the file was opened (and so
\* emptied) but the content was not written
WriteOutcomes == {"ok", "failed", "truncated"}
Disk(etag, events) == [etag |-> etag, events |-> events]
DiskOk == Disk("ok", "ok")
DiskOutcomes == { Disk(e, v) : e \in WriteOutcomes, v \in WriteOutcomes }

\* encoding/json of a time.Time: RFC 3339 with the fraction and the offset
marshalTime(t) == [wall |-> t.sec + t.off, ms |-> t.ms, off |-> t.off]

\* a decoding that drops the fraction of the second
unmarshalTimeSeconds(j) == Time(j.wall - j.off, 0, j.off)

unmarshalTime(j) == Time(j.wall - j.off, j.ms, j.off)

marshalEvent(e) ==
  [startAt |-> marshalTime(e.StartAt), endAt |-> marshalTime(e.EndAt),
   code |-> e.Code, isTest |-> e.IsTest]
unmarshalEvent(j) ==
  Event(unmarshalTime(j.startAt), unmarshalTime(j.endAt), j.code, j.isTest)

\* a getCachedETagFromDir that never finds a token
getCachedETagNone(ef) == ""

\* getCachedETagFromDir: "" when the file cannot be read
getCachedETag(ef) == ef

\* cacheETagToDir on the token file ef: the error of the write is logged only
cacheETag(ef, etag, outcome) ==
  IF outcome = "ok" THEN etag
  ELSE IF outcome = "failed" THEN ef
  ELSE ""

\* a getCachedEventsFromDir that reports a snapshot it cannot read or decode
getCachedEventsStrict(cf) ==
  IF cf.state = "ok"
  THEN [events |-> [i \in DOMAIN cf.data |-> unmarshalEvent(cf.data[i])],
        err |-> FALSE]
  ELSE [events |-> <<>>, err |-> TRUE]

\* getCachedEventsFromDir: the events and the error; an empty list and a nil
\* error when the snapshot is missing or does not decode
getCachedEvents(cf) ==
  IF cf.state = "ok"
  THEN [events |-> [i \in DOMAIN cf.data |-> unmarshalEvent(cf.data[i])],
        err |-> FALSE]
  ELSE [events |-> <<>>, err |-> FALSE]

\* the snapshot file json.Marshal(events) makes
snapshotOf(events) ==
  [state |-> "ok", data |-> [i \in DOMAIN events |-> marshalEvent(events[i])]]

\* cacheEventsToDir on the snapshot file cf: the error of the write is dropped
cacheEvents(cf, events, outcome) ==
  IF outcome = "ok" THEN snapshotOf(events)
  ELSE IF outcome = "failed" THEN cf
  ELSE CorruptCache

\* -------------------------------------------------------- SourceFetchers
SeqsUpTo(S, n) == UNION { [1..k -> S] : k \in 0..n }

\* nodes the Octopus GraphQL API may return: whole seconds, in UTC or with a
\* zone offset
PrimaryNodes ==
  { Event(Time(st[1], 0, st[2]), Time(st[1] + 1, 0, st[2]), "P", "nil") :
      st \in Secs \X Offsets }

OctopusResponses ==
  { [err |-> TRUE, edges |-> <<>>] } \cup
  { [err |-> FALSE, edges |-> e] : e \in SeqsUpTo(PrimaryNodes, MaxResp) }

\* fetchOctopusEvents, given the outcome of client.Run
fetchOctopusEvents(resp) ==
  IF resp.err THEN [events |-> <<>>, err |-> TRUE]
  ELSE [events |-> resp.edges, err |-> FALSE]

\* entries of the Secondary payload (published format): whole seconds, and
\* (for the first instant) a sub-second variant
SecondaryEntries ==
  { OutputEvent(Text(st[1], st[2]), Text(st[1] + 1, st[2]), "S", "true") :
      st \in { x \in Secs \X Millis : x[1] = 1 \/ x[2] = 0 } }

ETags == {"e1"}

HttpResponse(kind, status, etag, bodyOk, data) ==
  [kind |-> kind, status |-> status, etag |-> etag,
   bodyOk |-> bodyOk, data |-> data]

DavidResponses ==
  { HttpResponse("error", 0, "", FALSE, <<>>),
    HttpResponse("http", 304, "", FALSE, <<>>),
    HttpResponse("http", 500, "", FALSE, <<>>),
    HttpResponse("http", 200, "e1", FALSE, <<>>) } \cup
  { HttpResponse("http", 200, t, TRUE, d) :
      t \in ETags, d \in SeqsUpTo(SecondaryEntries, MaxResp) }

entryParses(o) == ParseOk(o.Start) /\ ParseOk(o.End)

\* a conversion that gives up at the first entry that does not parse
convertPayloadUntilBad(data) ==
  LET bad == {i \in DOMAIN data : ~entryParses(data[i])}
      kept == IF bad = {} THEN data
              ELSE SubSeq(data, 1, (CHOOSE i \in bad : \A j \in bad : i <= j) - 1)
  IN  [i \in DOMAIN kept |-> fromOutputEvent(kept[i])]

\* the conversion loop of fetchDavidKendallData: unparseable entries skipped
convertPayload(data) ==
  LET kept == SelectSeq(data, entryParses)
  IN  [i \in DOMAIN kept |-> fromOutputEvent(kept[i])]

\* fetchDavidKendallData on the cache (ef, cf), the upstream answer resp and
\* the outcomes disk of its cache writes: the returned events and error, and
\* the cache it leaves behind
fetchDavidKendallData(ef, cf, resp, disk) ==
  LET sent == getCachedETag(ef)
      same(events, err) ==
        [events |-> events, err |-> err, etagFile |-> ef, eventsFile |-> cf,
         ifNoneMatch |-> sent, decoded |-> FALSE]
  IN  IF resp.kind = "error" THEN same(<<>>, TRUE)
      ELSE IF resp.status = 304
           THEN same(getCachedEvents(cf).events, getCachedEvents(cf).err)
      ELSE IF resp.status # 200 THEN same(<<>>, TRUE)
      ELSE IF ~resp.bodyOk THEN [same(<<>>, TRUE) EXCEPT !.decoded = TRUE]
      ELSE LET events == convertPayload(resp.data)
           IN  [events |-> events, err |-> FALSE,
                etagFile |-> IF resp.etag # ""
                             THEN cacheETag(ef, resp.etag, disk.etag)
                             ELSE ef,
                eventsFile |-> cacheEvents(cf, events, disk.events),
                ifNoneMatch |-> sent, decoded |-> TRUE]

\* ------------------------------------------------------------ Reconciler
fetchResult(events, source, err) ==
  [events |-> events, source |-> source, err |-> err]

\* no call of fetchDavidKendallData yet
NoFetch ==
  [n |-> 0, resp |-> HttpResponse("none", 0, "", FALSE, <<>>), disk |-> DiskOk,
   etagBefore |-> "", eventsBefore |-> AbsentCache,
   events |-> <<>>, err |-> FALSE, ifNoneMatch |-> "", decoded |-> FALSE,
   tokenFrom |-> 0, snapshotFrom |-> 0, stored |-> <<>>]

NoRun ==
  [ret |-> "none", wrote |-> FALSE, before |-> AbsentFile,
   loaded |-> <<>>, external |-> <<>>, octopus |-> <<>>,
   externalErr |-> FALSE, octopusErr |-> FALSE,
   withExternal |-> <<>>, all |-> <<>>, final |-> <<>>, msg |-> <<>>]

\* ---------------------------------------------------- AuthenticatedClient
\* Time is counted in units of 5 minutes.  A token is the number of the
\* token response that carried it; 0 is the empty string.
Callers == 1..MaxCallers

\* the 5*time.Minute of ensureValidToken
Buffer == 1

\* RefreshExpiresIn of a token response: the buffer exactly, or longer
ExpiresIns == {Buffer, Buffer + 2}

\* the answers to the obtainKrakenToken mutation
TokenResponses ==
  { [err |-> TRUE, RefreshExpiresIn |-> 0] } \cup
  { [err |-> FALSE, RefreshExpiresIn |-> e] : e \in ExpiresIns }

\* a validity test without the buffer
hasValidTokenNoBuffer(cl, t) == cl.token # 0 /\ t < cl.tokenExpiry

\* c.token != "" && time.Now().Add(5*time.Minute).Before(c.tokenExpiry),
\* under the read lock
hasValidToken(cl, t) == cl.token # 0 /\ t + Buffer < cl.tokenExpiry

\* a second test that never finds a valid token
tokenNeverValid(cl, t) == FALSE

\* the same test repeated under the write lock
tokenStillValid(cl, t) == cl.token # 0 /\ t + Buffer < cl.tokenExpiry

\* a read lock that does not wait for the writer
RLockAlways(m) == TRUE

\* c.mutex.RLock() can proceed: no writer holds the mutex
RLockFree(m) == m.writer = 0

\* c.mutex.Lock() can proceed: nobody holds the mutex
LockFree(m) == m.writer = 0 /\ m.readers = {}

\* what a test of the token saw
Held(cl, t) == [token |-> cl.token, tokenExpiry |-> cl.tokenExpiry, at |-> t]

\* a caller outside Run; n counts its calls, held is what the deciding test
\* of ensureValidToken saw, locked whether the call took the write lock,
\* trace the requests the call sent, ret its return
IdleCaller ==
  [pc |-> "idle", n |-> 0, held |-> Held([token |-> 0, tokenExpiry |-> 0], 0),
   locked |-> FALSE, RefreshExpiresIn |-> 0, token |-> 0, trace |-> <<>>,
   ret |-> "none"]

\* NewAuthenticatedClient: no token, and nobody calling
InitClient ==
  /\ c = [token |-> 0, tokenExpiry |-> 0]
  /\ mutex = [writer |-> 0, readers |-> {}]
  /\ calls = [p \in Callers |-> IdleCaller]
  /\ now = 0
  /\ issued = <<>>

\* no inputs tried yet
NoTrial == [step |-> "none"]

\* no dataset saved yet
NoSave ==
  [step |-> "none", events |-> <<>>, testFile |-> AbsentFile,
   loadedEvents |-> <<>>, err |-> "nil"]

\* no call of loadConfig yet
NoCall == [called |-> FALSE]

Init ==
  /\ file = AbsentFile
  /\ etagFile = ""
  /\ eventsFile = AbsentCache
  /\ pc = "idle"
  /\ existingEvents = <<>>
  /\ octoTask = "none"
  /\ davidTask = "none"
  /\ results = <<>>
  /\ collected = 0
  /\ octopusEvents = <<>>
  /\ externalEvents = <<>>
  /\ last = NoRun
  /\ runs = 0
  /\ fetched = NoFetch
  /\ saved = NoSave
  /\ config = NoCall
  /\ InitClient
  /\ trial = NoTrial

\* fetchAndUpdateEvents, from the call to the launch of the two goroutines
StartRun ==
  /\ pc = "idle"
  /\ runs < MaxRuns
  /\ runs' = runs + 1
  /\ LET loaded == loadExistingEvents(file)
     IN  IF loaded.err = "decode"
         THEN /\ last' = [NoRun EXCEPT !.ret = "err_load", !.before = file]
              /\ UNCHANGED <<pc, existingEvents, octoTask, davidTask>>
         ELSE /\ last' = NoRun
              /\ existingEvents' = loaded.events
              /\ pc' = "collect"
              /\ octoTask' = "running"
              /\ davidTask' = "running"
  /\ results' = <<>>
  /\ collected' = 0
  /\ octopusEvents' = <<>>
  /\ externalEvents' = <<>>
  /\ UNCHANGED <<file, etagFile, eventsFile, fetched, saved, config, clientVars, trial>>

\* a channel with room for one result
ChannelCapOne == Len(<<"slot">>)

\* results := make(chan fetchResult, 2): a send blocks while the channel
\* holds this many results
ChannelCap == 2

\* the goroutine that calls fetchOctopusEvents and sends its result
OctopusFetch ==
  /\ octoTask = "running"
  /\ Len(results) < ChannelCap
  /\ \E resp \in OctopusResponses :
       LET r == fetchOctopusEvents(resp)
       IN  results' = Append(results, fetchResult(r.events, "octopus", r.err))
  /\ octoTask' = "done"
  /\ UNCHANGED <<file, etagFile, eventsFile, pc, existingEvents, davidTask,
                 collected, octopusEvents, externalEvents, last, runs,
                 fetched, saved, config, clientVars, trial>>

\* the goroutine that calls fetchDavidKendallData and sends its result
DavidFetch ==
  /\ davidTask = "running"
  /\ Len(results) < ChannelCap
  /\ \E resp \in DavidResponses :
       LET r == fetchDavidKendallData(etagFile, eventsFile, resp, DiskOk)
       IN  /\ results' =
                Append(results, fetchResult(r.events, "david_kendall", r.err))
           /\ etagFile' = r.etagFile
           /\ eventsFile' = r.eventsFile
  /\ davidTask' = "done"
  /\ UNCHANGED <<file, pc, existingEvents, octoTask, collected, octopusEvents,
                 externalEvents, last, runs, fetched, saved,
                 config, clientVars, trial>>

\* a collector that goes on after the first result
ResultsAwaitedOne == Len(<<"first">>)

\* the number of results the collector loop receives: for i := 0; i < 2; i++
ResultsAwaited == 2

\* the locals the collector loop assigns, and whether each source failed
Got(octopus, external, octopusErr, externalErr) ==
  [octopusEvents |-> octopus, externalEvents |-> external,
   octopusErr |-> octopusErr, externalErr |-> externalErr]

\* a loop body that takes the first result for Octopus and the second for
\* David Kendall, whatever its source says
receiveInOrder(result, got, i) ==
  LET events == IF result.err THEN <<>> ELSE result.events
  IN  IF i = 0
      THEN [got EXCEPT !.octopusEvents = events, !.octopusErr = result.err]
      ELSE [got EXCEPT !.externalEvents = events, !.externalErr = result.err]

\* the body of the collector loop on the result received in iteration i: the
\* events (none on an error) go to the local that result.source names
receive(result, got, i) ==
  LET events == IF result.err THEN <<>> ELSE result.events
  IN  IF result.source = "octopus"
      THEN [got EXCEPT !.octopusEvents = events, !.octopusErr = result.err]
      ELSE [got EXCEPT !.externalEvents = events, !.externalErr = result.err]

\* one iteration of the collector loop: receive a result from the channel
Collect ==
  /\ pc = "collect"
  /\ collected < ResultsAwaited
  /\ results # <<>>
  /\ LET got == receive(Head(results),
                        Got(octopusEvents, externalEvents,
                            last.octopusErr, last.externalErr),
                        collected)
     IN  /\ octopusEvents' = got.octopusEvents
         /\ externalEvents' = got.externalEvents
         /\ last' = [last EXCEPT !.octopusErr = got.octopusErr,
                                 !.externalErr = got.externalErr]
  /\ results' = Tail(results)
  /\ collected' = collected + 1
  /\ pc' = IF collected + 1 = ResultsAwaited THEN "merge" ELSE "collect"
  /\ UNCHANGED <<file, etagFile, eventsFile, existingEvents, octoTask,
                 davidTask, runs, fetched, saved, config, clientVars, trial>>

\* a safety check that never fires
safetyCheckNever(finalEvents, existing) == FALSE

\* the safety check before the write
safetyCheckFails(finalEvents, existing) == Len(finalEvents) < Len(existing)

\* the counts named by the safety error: "from %d to %d"
safetyError(existing, finalEvents) == <<Len(existing), Len(finalEvents)>>

\* a merge step that drops the base when the source produced no events
mergeOrReset(allEvents, new) ==
  IF Len(new) > 0 THEN mergeEvents(allEvents, new) ELSE {<<>>}

\* merge step: skipped when the source produced no events
mergeIfAny(allEvents, new) ==
  IF Len(new) > 0 THEN mergeEvents(allEvents, new) ELSE {allEvents}

\* fetchAndUpdateEvents after the collector loop: merge, change detection,
\* code assignment, safety check and save; outcomes are the ways the write
\* of the output file may end
ReconcileWith(outcomes) ==
  /\ pc = "merge"
  /\ \E withExternal \in mergeIfAny(existingEvents, externalEvents) :
     \E allEvents \in mergeIfAny(withExternal, octopusEvents) :
       LET done(ret, wrote, final) ==
             [last EXCEPT !.ret = ret, !.wrote = wrote, !.before = file,
                          !.loaded = existingEvents,
                          !.external = externalEvents,
                          !.octopus = octopusEvents,
                          !.withExternal = withExternal,
                          !.all = allEvents, !.final = final]
       IN  IF ~hasChanges(existingEvents, allEvents)
           THEN /\ last' = done("nil", FALSE, <<>>)
                /\ UNCHANGED file
           ELSE \E finalEvents \in assignSequentialCodes(allEvents) :
                  IF safetyCheckFails(finalEvents, existingEvents)
                  THEN /\ last' = [done("err_safety", FALSE, finalEvents)
                                    EXCEPT !.msg = safetyError(existingEvents,
                                                               finalEvents)]
                       /\ UNCHANGED file
                  ELSE \E outcome \in outcomes :
                         /\ file' = saveEventsTo(file, finalEvents, outcome)
                         /\ last' = IF outcome = "ok"
                                    THEN done("nil", TRUE, finalEvents)
                                    ELSE done("err_save", FALSE, finalEvents)
  /\ pc' = "idle"
  /\ octoTask' = "none"
  /\ davidTask' = "none"
  /\ existingEvents' = <<>>
  /\ octopusEvents' = <<>>
  /\ externalEvents' = <<>>
  /\ collected' = 0
  /\ UNCHANGED <<etagFile, eventsFile, results, runs, fetched, saved, config, clientVars, trial>>

\* the end of a run whose save succeeds
Reconcile == ReconcileWith({"ok"})

\* the end of a run whose save ends in any way
ReconcileDisk == ReconcileWith(WriteOutcomes)

\* a second attempt of the Primary fetch after its result was sent
RetryOctopus ==
  /\ pc = "collect"
  /\ octoTask = "done"
  /\ octoTask' = "running"
  /\ Len(results) < 2
  /\ UNCHANGED <<file, etagFile, eventsFile, pc, existingEvents, davidTask,
                 results, collected, octopusEvents, externalEvents, last, runs,
                 fetched, saved, config, clientVars, trial>>

\* the run with such a retry
NextWithRetry ==
  StartRun \/ OctopusFetch \/ DavidFetch \/ Collect \/ Reconcile \/ RetryOctopus

Next == StartRun \/ OctopusFetch \/ DavidFetch \/ Collect \/ Reconcile

Spec == Init /\ [][Next]_vars

\* the runs when each fetch call returns and the scheduler lets every
\* goroutine that can take a step take it
SpecLive ==
  /\ Spec
  /\ WF_vars(OctopusFetch)
  /\ WF_vars(DavidFetch)
  /\ WF_vars(Collect)
  /\ WF_vars(Reconcile)

\* the runs with an output file whose write may fail
NextDisk == StartRun \/ OctopusFetch \/ DavidFetch \/ Collect \/ ReconcileDisk

SpecDisk == Init /\ [][NextDisk]_vars

\* ------------------------------------------- the Secondary fetcher alone
\* entries of a Secondary payload whose start or end does not parse
MalformedEntries ==
  { OutputEvent(BadText, Text(2, 0), "S", "true"),
    OutputEvent(Text(1, 0), BadText, "S", "true") }

PayloadEntries == SecondaryEntries \cup MalformedEntries

\* ETag headers of a 200 response: none, or one of two values
CacheETags == {"", "e1", "e2"}

CacheResponses ==
  { HttpResponse("error", 0, "", FALSE, <<>>),
    HttpResponse("http", 304, "", FALSE, <<>>),
    HttpResponse("http", 500, "", FALSE, <<>>),
    HttpResponse("http", 200, "e1", FALSE, <<>>) } \cup
  { HttpResponse("http", 200, t, TRUE, d) :
      t \in CacheETags, d \in SeqsUpTo(PayloadEntries, MaxResp) }

\* the response is a 200 whose body decodes
Decodable200(resp) == resp.kind = "http" /\ resp.status = 200 /\ resp.bodyOk

\* one call of fetchDavidKendallData, with any upstream answer and any
\* outcome of its cache writes.  tokenFrom and snapshotFrom number the call
\* whose response the token file and the snapshot file hold (0: none), and
\* stored is the event list the snapshot was made from
FetchSecondary ==
  /\ fetched.n < MaxFetches
  /\ \E resp \in CacheResponses : \E disk \in DiskOutcomes :
       LET r == fetchDavidKendallData(etagFile, eventsFile, resp, disk)
           n == fetched.n + 1
           wrote(outcome, from) ==
             IF outcome = "ok" THEN n ELSE IF outcome = "failed" THEN from ELSE 0
       IN  /\ etagFile' = r.etagFile
           /\ eventsFile' = r.eventsFile
           /\ fetched' =
                [n |-> n, resp |-> resp, disk |-> disk,
                 etagBefore |-> etagFile, eventsBefore |-> eventsFile,
                 events |-> r.events, err |-> r.err,
                 ifNoneMatch |-> r.ifNoneMatch, decoded |-> r.decoded,
                 tokenFrom |->
                   IF Decodable200(resp) /\ resp.etag # ""
                   THEN wrote(disk.etag, fetched.tokenFrom)
                   ELSE fetched.tokenFrom,
                 snapshotFrom |->
                   IF Decodable200(resp)
                   THEN wrote(disk.events, fetched.snapshotFrom)
                   ELSE fetched.snapshotFrom,
                 stored |->
                   IF Decodable200(resp) /\ disk.events = "ok" THEN r.events
                   ELSE IF Decodable200(resp) /\ disk.events = "truncated"
                   THEN <<>>
                   ELSE fetched.stored]
  /\ UNCHANGED <<file, pc, existingEvents, octoTask, davidTask, results,
                 collected, octopusEvents, externalEvents, last, runs,
                 saved, config, clientVars, trial>>

NextCache == FetchSecondary

SpecCache == Init /\ [][NextCache]_vars

\* ------------------------------------- runs on a file found in any state
\* an output file with an entry whose start does not parse
BadStampFile == DataFile(<<OutputEvent(BadText, Text(2, 0), "1", "nil")>>)

\* a cache left by an earlier run: a token and a snapshot of one event
UsedCache ==
  snapshotOf(<<Event(Time(1, 0, 0), Time(2, 0, 0), "S", "true")>>)

\* the output file and the cache at the start of the program: nothing yet,
\* or an output file that does not decode next to an empty or a used cache
StartStates ==
  { <<AbsentFile, "", AbsentCache>> } \cup
  { <<f, cache[1], cache[2]>> : f \in {CorruptFile, BadStampFile},
                        cache \in { <<"", AbsentCache>>, <<"e1", UsedCache>> } }

InitStore ==
  /\ \E st \in StartStates :
       file = st[1] /\ etagFile = st[2] /\ eventsFile = st[3]
  /\ pc = "idle"
  /\ existingEvents = <<>>
  /\ octoTask = "none"
  /\ davidTask = "none"
  /\ results = <<>>
  /\ collected = 0
  /\ octopusEvents = <<>>
  /\ externalEvents = <<>>
  /\ last = NoRun
  /\ runs = 0
  /\ fetched = NoFetch
  /\ saved = NoSave
  /\ config = NoCall
  /\ InitClient
  /\ trial = NoTrial

SpecStore == InitStore /\ [][Next]_vars

\* ------------------------------------------- the store alone: round trip
\* a *bool: nil, or a pointer to true or to false
IsTestValues == {"nil", "true", "false"}

\* entries of a Secondary payload with every form of the is_test field
FlaggedEntries ==
  { OutputEvent(Text(st[1], st[2]), Text(st[1] + 1, st[2]), "S", t) :
      st \in Secs \X Millis, t \in IsTestValues }

\* events as a caller of saveEvents may build them: any instant, location,
\* code and flag
AnyEvents ==
  { Event(Time(st[1], st[2], st[3]), Time(st[1] + 1, st[2], st[3]), code, t) :
      st \in Secs \X Millis \X Offsets, code \in {"1", "2"}, t \in IsTestValues }

\* a dataset converted from a decoded Secondary payload
TakeSecondary ==
  /\ saved.step = "none"
  /\ \E data \in SeqsUpTo(FlaggedEntries, MaxResp) :
       saved' = [saved EXCEPT !.step = "dataset",
                              !.events = convertPayload(data)]
  /\ UNCHANGED <<file, etagFile, eventsFile, pc, existingEvents, octoTask,
                 davidTask, results, collected, octopusEvents, externalEvents,
                 last, runs, fetched, config, clientVars, trial>>

\* a dataset built by the caller
MakeEvents ==
  /\ saved.step = "none"
  /\ \E events \in SeqsUpTo(AnyEvents, MaxResp) :
       saved' = [saved EXCEPT !.step = "dataset", !.events = events]
  /\ UNCHANGED <<file, etagFile, eventsFile, pc, existingEvents, octoTask,
                 davidTask, results, collected, octopusEvents, externalEvents,
                 last, runs, fetched, config, clientVars, trial>>

\* saveEvents(events, testFile)
SaveEvents ==
  /\ saved.step = "dataset"
  /\ saved' = [saved EXCEPT !.step = "saved",
                            !.testFile = saveEvents(saved.events)]
  /\ UNCHANGED <<file, etagFile, eventsFile, pc, existingEvents, octoTask,
                 davidTask, results, collected, octopusEvents, externalEvents,
                 last, runs, fetched, config, clientVars, trial>>

\* loadedEvents, err := loadExistingEvents(testFile)
LoadEvents ==
  /\ saved.step = "saved"
  /\ LET loaded == loadExistingEvents(saved.testFile)
     IN  saved' = [saved EXCEPT !.step = "loaded",
                                !.loadedEvents = loaded.events,
                                !.err = loaded.err]
  /\ UNCHANGED <<file, etagFile, eventsFile, pc, existingEvents, octoTask,
                 davidTask, results, collected, octopusEvents, externalEvents,
                 last, runs, fetched, config, clientVars, trial>>

NextFormat == TakeSecondary \/ MakeEvents \/ SaveEvents \/ LoadEvents

SpecFormat == Init /\ [][NextFormat]_vars

\* ------------------------------------------------------------ loadConfig
Config(account, meter, key, output) ==
  [AccountNumber |-> account, MeterPointID |-> meter, APIKey |-> key,
   OutputFile |-> output]

\* the nil *Config returned with an error
NilConfig == [nil |-> TRUE]

DefaultOutput == "free_electricity.json"

\* the parsed command line: -config, -account, -meter, -key, -output (the
\* value of a flag that is not given is its default)
Flags ==
  [configFile : {"", "c.yaml"}, accountNumber : {"", "flag"},
   meterPointID : {"", "flag"}, apiKey : {"", "flag"},
   outputFile : {DefaultOutput, "flag.json"}]

\* a key the configuration file does not have
NoKey == "(no key)"

\* the file -config names: one that cannot be read or decoded, or its keys
Unreadable == [readable |-> FALSE]
ConfigFiles ==
  { Unreadable } \cup
  [readable : {TRUE}, accountNumber : {NoKey, "", "file"},
   meterPointID : {NoKey, "", "file"}, apiKey : {NoKey, "", "file"},
   outputFile : {NoKey, "", "file.json"}]

\* the environment
Environments ==
  [ACCOUNT_NUMBER : {"", "env"}, METER_POINT_ID : {"", "env"},
   OCTOPUS_API_KEY : {"", "env"}]

getEnvOrDefault(value, defaultValue) ==
  IF value # "" THEN value ELSE defaultValue

\* yaml.Unmarshal(data, config): a key of the file replaces the field, a
\* field without a key in the file keeps its value
yamlUnmarshal(data, cfg) ==
  LET set(key, field) == IF key = NoKey THEN field ELSE key
  IN  Config(set(data.accountNumber, cfg.AccountNumber),
             set(data.meterPointID, cfg.MeterPointID),
             set(data.apiKey, cfg.APIKey),
             set(data.outputFile, cfg.OutputFile))

loadConfigFromFile(data, cfg) ==
  IF ~data.readable THEN [config |-> cfg, err |-> TRUE]
  ELSE [config |-> yamlUnmarshal(data, cfg), err |-> FALSE]

\* a resolution that looks at the environment first
resolveEnvFirst(flagValue, current, envValue) ==
  IF envValue # "" THEN envValue
  ELSE IF flagValue # "" THEN flagValue
  ELSE current

\* if *flag != "" { field = *flag } else if field == "" { field = env }
resolve(flagValue, current, envValue) ==
  IF flagValue # "" THEN flagValue
  ELSE IF current = "" THEN envValue
  ELSE current

\* loadConfig: the *Config and the error it returns
loadConfig(flags, data, env) ==
  LET c0 == Config("", "", "", flags.outputFile)
      fromFile == IF flags.configFile # "" THEN loadConfigFromFile(data, c0)
                  ELSE [config |-> c0, err |-> FALSE]
      c1 == fromFile.config
      c2 == Config(resolve(flags.accountNumber, c1.AccountNumber,
                           getEnvOrDefault(env.ACCOUNT_NUMBER, "")),
                   resolve(flags.meterPointID, c1.MeterPointID,
                           getEnvOrDefault(env.METER_POINT_ID, "")),
                   resolve(flags.apiKey, c1.APIKey, env.OCTOPUS_API_KEY),
                   c1.OutputFile)
  IN  IF fromFile.err
      THEN [config |-> NilConfig, err |-> "failed to load config file"]
      ELSE IF c2.APIKey = ""
      THEN [config |-> NilConfig, err |-> "API key is required"]
      ELSE IF c2.AccountNumber = ""
      THEN [config |-> NilConfig, err |-> "account number is required"]
      ELSE IF c2.MeterPointID = ""
      THEN [config |-> NilConfig, err |-> "meter point ID is required"]
      ELSE [config |-> c2, err |-> "nil"]

\* config, err := loadConfig() on some command line, file and environment;
\* no file is read when -config is not given
LoadConfig ==
  /\ ~config.called
  /\ \E flags \in Flags : \E env \in Environments :
     \E data \in IF flags.configFile = "" THEN {Unreadable} ELSE ConfigFiles :
       LET r == loadConfig(flags, data, env)
       IN  config' = [called |-> TRUE, flags |-> flags, data |-> data,
                      env |-> env, config |-> r.config, err |-> r.err]
  /\ UNCHANGED <<file, etagFile, eventsFile, pc, existingEvents, octoTask,
                 davidTask, results, collected, octopusEvents, externalEvents,
                 last, runs, fetched, saved, clientVars, trial>>

NextConfig == LoadConfig

SpecConfig == Init /\ [][NextConfig]_vars

\* ------------------------------------------------ AuthenticatedClient.Run
\* caller p enters c.Run
Run(p) ==
  /\ calls[p].pc = "idle"
  /\ calls[p].n < MaxCalls
  /\ calls' = [calls EXCEPT ![p] =
                 [IdleCaller EXCEPT !.pc = "rlock", !.n = calls[p].n + 1]]
  /\ UNCHANGED <<c, mutex, now, issued>>
  /\ UNCHANGED runVars

\* ensureValidToken: c.mutex.RLock()
RLockCheck(p) ==
  /\ calls[p].pc = "rlock"
  /\ RLockFree(mutex)
  /\ mutex' = [mutex EXCEPT !.readers = @ \cup {p}]
  /\ calls' = [calls EXCEPT ![p].pc = "check"]
  /\ UNCHANGED <<c, now, issued>>
  /\ UNCHANGED runVars

\* ensureValidToken: the first test, c.mutex.RUnlock(), return if valid
Check(p) ==
  /\ calls[p].pc = "check"
  /\ mutex' = [mutex EXCEPT !.readers = @ \ {p}]
  /\ calls' = [calls EXCEPT
                 ![p].held = Held(c, now),
                 ![p].pc = IF hasValidToken(c, now) THEN "rlock2" ELSE "lock"]
  /\ UNCHANGED <<c, now, issued>>
  /\ UNCHANGED runVars

\* ensureValidToken: c.mutex.Lock()
Lock(p) ==
  /\ calls[p].pc = "lock"
  /\ LockFree(mutex)
  /\ mutex' = [mutex EXCEPT !.writer = p]
  /\ calls' = [calls EXCEPT ![p].pc = "recheck", ![p].locked = TRUE]
  /\ UNCHANGED <<c, now, issued>>
  /\ UNCHANGED runVars

\* ensureValidToken: the test under the write lock; return (and the
\* deferred Unlock) if the token is valid by now
Recheck(p) ==
  /\ calls[p].pc = "recheck"
  /\ IF tokenStillValid(c, now)
     THEN /\ mutex' = [mutex EXCEPT !.writer = 0]
          /\ calls' = [calls EXCEPT ![p].held = Held(c, now),
                                    ![p].pc = "rlock2"]
     ELSE /\ calls' = [calls EXCEPT ![p].held = Held(c, now),
                                    ![p].pc = "obtain"]
          /\ UNCHANGED mutex
  /\ UNCHANGED <<c, now, issued>>
  /\ UNCHANGED runVars

\* obtainToken: the mutation is sent; on an error ensureValidToken and Run
\* return it (the deferred Unlock runs), otherwise c.token is assigned
ObtainToken(p) ==
  /\ calls[p].pc = "obtain"
  /\ \E response \in TokenResponses :
       IF response.err
       THEN /\ calls' = [calls EXCEPT
                           ![p].trace = Append(@, "obtainKrakenToken"),
                           ![p].ret = "failed to ensure valid token",
                           ![p].pc = "idle"]
            /\ mutex' = [mutex EXCEPT !.writer = 0]
            /\ UNCHANGED <<c, issued>>
       ELSE /\ c' = [c EXCEPT !.token = Len(issued) + 1]
            /\ issued' = Append(issued, [token |-> Len(issued) + 1,
                                         tokenExpiry |-> 0, by |-> p])
            /\ calls' = [calls EXCEPT
                           ![p].trace = Append(@, "obtainKrakenToken"),
                           ![p].RefreshExpiresIn = response.RefreshExpiresIn,
                           ![p].pc = "store"]
            /\ UNCHANGED mutex
  /\ UNCHANGED now
  /\ UNCHANGED runVars

\* obtainToken: c.tokenExpiry is assigned, then the deferred Unlock
Store(p) ==
  /\ calls[p].pc = "store"
  /\ c' = [c EXCEPT !.tokenExpiry = now + calls[p].RefreshExpiresIn]
  /\ issued' = [issued EXCEPT ![Len(issued)].tokenExpiry =
                                now + calls[p].RefreshExpiresIn]
  /\ mutex' = [mutex EXCEPT !.writer = 0]
  /\ calls' = [calls EXCEPT ![p].pc = "rlock2"]
  /\ UNCHANGED now
  /\ UNCHANGED runVars

\* Run: c.mutex.RLock()
RLockRead(p) ==
  /\ calls[p].pc = "rlock2"
  /\ RLockFree(mutex)
  /\ mutex' = [mutex EXCEPT !.readers = @ \cup {p}]
  /\ calls' = [calls EXCEPT ![p].pc = "read"]
  /\ UNCHANGED <<c, now, issued>>
  /\ UNCHANGED runVars

\* Run: token := c.token, c.mutex.RUnlock()
Read(p) ==
  /\ calls[p].pc = "read"
  /\ mutex' = [mutex EXCEPT !.readers = @ \ {p}]
  /\ calls' = [calls EXCEPT ![p].token = c.token, ![p].pc = "send"]
  /\ UNCHANGED <<c, now, issued>>
  /\ UNCHANGED runVars

\* Run: the query is sent with the Authorization header; Run returns what
\* c.client.Run returns
Send(p) ==
  /\ calls[p].pc = "send"
  /\ \E ok \in BOOLEAN :
       calls' = [calls EXCEPT
                   ![p].trace = Append(@, "query"),
                   ![p].ret = IF ok THEN "nil" ELSE "query failed",
                   ![p].pc = "idle"]
  /\ UNCHANGED <<c, mutex, now, issued>>
  /\ UNCHANGED runVars

\* 5 minutes pass
Tick ==
  /\ now < MaxNow
  /\ now' = now + 1
  /\ UNCHANGED <<c, mutex, calls, issued>>
  /\ UNCHANGED runVars

NextClient ==
  \/ \E p \in Callers : Run(p)
  \/ \E p \in Callers : RLockCheck(p)
  \/ \E p \in Callers : Check(p)
  \/ \E p \in Callers : Lock(p)
  \/ \E p \in Callers : Recheck(p)
  \/ \E p \in Callers : ObtainToken(p)
  \/ \E p \in Callers : Store(p)
  \/ \E p \in Callers : RLockRead(p)
  \/ \E p \in Callers : Read(p)
  \/ \E p \in Callers : Send(p)
  \/ Tick

SpecClient == Init /\ [][NextClient]_vars

\* ------------------------------------ the collector and the merge alone
\* events a source may return: the same second with or without a sub-second
\* part, in UTC or with a zone offset, ending one or two seconds later
SourceEvents ==
  { Event(Time(1, st[1], st[2]), Time(st[3], 0, st[2]), "P", "nil") :
      st \in Millis \X Offsets \X {2, 3} }

\* events as loadExistingEvents and the Secondary conversion return them:
\* parsed, so in UTC
ParsedEvents == { e \in SourceEvents : e.StartAt.off = 0 }

\* what the two goroutines may send
OctopusResults ==
  { fetchResult(<<>>, "octopus", TRUE) } \cup
  { fetchResult(e, "octopus", FALSE) : e \in SeqsUpTo(SourceEvents, MaxResp) }

DavidResults ==
  { fetchResult(<<>>, "david_kendall", TRUE) } \cup
  { fetchResult(e, "david_kendall", FALSE) :
      e \in SeqsUpTo(ParsedEvents, MaxResp) }

\* the collector loop on a channel that delivers ch[1] and then ch[2]
collectResults(ch) ==
  receive(ch[2], receive(ch[1], Got(<<>>, <<>>, FALSE, FALSE), 0), 1)

\* fetchAndUpdateEvents after the collector loop, the write succeeding: every
\* merged dataset, change decision, final dataset, write decision and return
\* value it may come to
runOutcomes(existing, external, octopus) ==
  LET outcome(all, changed, final, wrote, ret) ==
        [all |-> all, changed |-> changed, final |-> final, wrote |-> wrote,
         ret |-> ret]
      after(all) ==
        IF ~hasChanges(existing, all)
        THEN { outcome(all, FALSE, <<>>, FALSE, "nil") }
        ELSE { IF safetyCheckFails(final, existing)
               THEN outcome(all, TRUE, final, FALSE, "err_safety")
               ELSE outcome(all, TRUE, final, TRUE, "nil") :
                 final \in assignSequentialCodes(all) }
  IN  UNION { after(all) :
                all \in UNION { mergeIfAny(withExternal, octopus) :
                                  withExternal \in mergeIfAny(existing, external) } }

\* a loaded dataset and the two results arrive, in one order and in the other
Arrive ==
  /\ trial.step = "none"
  /\ \E existing \in SeqsUpTo(ParsedEvents, MaxResp) :
     \E octopus \in OctopusResults : \E david \in DavidResults :
       trial' = [step |-> "collected", existing |-> existing,
                 octopus |-> octopus, david |-> david,
                 octopusFirst |-> collectResults(<<octopus, david>>),
                 davidFirst |-> collectResults(<<david, octopus>>),
                 outcomesOctopusFirst |-> {}, outcomesDavidFirst |-> {}]
  /\ UNCHANGED <<file, etagFile, eventsFile, pc, existingEvents, octoTask,
                 davidTask, results, collected, octopusEvents, externalEvents,
                 last, runs, fetched, saved, config, clientVars>>

\* the rest of the run on what the collector made of each order
MergeTrial ==
  /\ trial.step = "collected"
  /\ trial' = [trial EXCEPT
                 !.step = "merged",
                 !.outcomesOctopusFirst =
                    runOutcomes(trial.existing,
                                trial.octopusFirst.externalEvents,
                                trial.octopusFirst.octopusEvents),
                 !.outcomesDavidFirst =
                    runOutcomes(trial.existing,
                                trial.davidFirst.externalEvents,
                                trial.davidFirst.octopusEvents)]
  /\ UNCHANGED <<file, etagFile, eventsFile, pc, existingEvents, octoTask,
                 davidTask, results, collected, octopusEvents, externalEvents,
                 last, runs, fetched, saved, config, clientVars>>

NextMerge == Arrive \/ MergeTrial

SpecMerge == Init /\ [][NextMerge]_vars

TypeOK ==
  /\ pc \in {"idle", "collect", "merge"}
  /\ file.state \in {"absent", "ok", "corrupt"}
  /\ collected \in 0..2
  /\ Len(results) <= 2

\* ------------------------------------------------------------ properties
\* a run of fetchAndUpdateEvents has returned and no other has started
RunDone == pc = "idle" /\ last.ret # "none"

\* a run that got past the load has returned
RunMerged == RunDone /\ last.ret # "err_load"

\* the number of events in an output file
Count(f) == Len(f.data)

C2_SafetyAbort ==
  (RunMerged /\ Len(last.all) < Len(last.loaded)) =>
    /\ last.ret = "err_safety"
    /\ last.msg = <<Len(last.loaded), Len(last.all)>>
    /\ ~last.wrote
    /\ file = last.before

\* a run whose merge came out smaller than the loaded dataset
C2_Witness ==
  /\ RunMerged /\ Len(last.all) < Len(last.loaded)
  /\ last.ret = "err_safety"
  /\ file = last.before /\ file.state = "ok"

\* the dedup keys of a list of events
Keys(events) == {eventKey(events[i]) : i \in DOMAIN events}

pairOf(event) ==
  <<event.StartAt.sec * 1000 + event.StartAt.ms,
    event.EndAt.sec * 1000 + event.EndAt.ms>>

Pairs(events) == {pairOf(events[i]) : i \in DOMAIN events}

\* the pairs of the events an output file holds
FilePairs(f) == Pairs(loadExistingEvents(f).events)

\* C3: a run that returns without error keeps every (startAt, endAt) pair
\* the output file held before it
C3_NeverDeleted ==
  (RunDone /\ last.ret = "nil") => FilePairs(last.before) \subseteq FilePairs(file)

\* C5: the pairs of a written dataset are exactly those of the loaded
\* dataset, of the Secondary events and of the Primary events
C5_ExactUnion ==
  (RunDone /\ last.wrote) =>
    Pairs(last.final) =
      Pairs(last.loaded) \cup Pairs(last.external) \cup Pairs(last.octopus)

\* the copies of pair k in a list
CopiesOf(events, k) == {events[i] : i \in {j \in DOMAIN events : pairOf(events[j]) = k}}

\* the copies merge-order-wins designates for pair k
WinningCopies(loaded, external, octopus, k) ==
  IF k \in Pairs(octopus) THEN CopiesOf(octopus, k)
  ELSE IF k \in Pairs(external) THEN CopiesOf(external, k)
  ELSE CopiesOf(loaded, k)

\* the pairs that occur in more than one of the three lists
SharedPairs(loaded, external, octopus) ==
  (Pairs(loaded) \cap Pairs(external)) \cup (Pairs(loaded) \cap Pairs(octopus))
    \cup (Pairs(external) \cap Pairs(octopus))

\* C6: for a pair that occurs in more than one of loaded, Secondary and
\* Primary, the merged dataset keeps a copy of it and every copy it keeps is
\* Primary's if Primary has the pair, otherwise Secondary's, otherwise the
\* loaded one
C6_MergeOrderWins ==
  (RunMerged /\ Len(last.external) + Len(last.octopus) > 0) =>
    \A k \in SharedPairs(last.loaded, last.external, last.octopus) :
      /\ CopiesOf(last.all, k) # {}
      /\ CopiesOf(last.all, k) \subseteq
           WinningCopies(last.loaded, last.external, last.octopus, k)

\* C7: a written file holds no two entries with the same (start, end) pair
C7_UniquePairs ==
  (RunDone /\ last.wrote) =>
    \A i, j \in DOMAIN file.data :
      i # j => <<file.data[i].Start, file.data[i].End>>
                 # <<file.data[j].Start, file.data[j].End>>

\* ascending by StartAt: no element is before its predecessor
Sorted(events) ==
  \A i \in 1..(Len(events) - 1) :
    ~Before(events[i + 1].StartAt, events[i].StartAt)

C10_NoOpSkipsWrite ==
  /\ (RunMerged /\ Len(last.all) = Len(last.loaded)
        /\ Pairs(last.all) = Pairs(last.loaded)) =>
       (last.ret = "nil" /\ ~last.wrote /\ file = last.before)
  /\ (RunDone /\ last.wrote) =>
       (Pairs(last.external) \cup Pairs(last.octopus)) \ Pairs(last.loaded) # {}

\* the merged datasets the merge steps of a run may produce from a loaded
\* dataset and the two source lists
mergedDatasets(loaded, external, octopus) ==
  UNION { mergeIfAny(withExternal, octopus) :
            withExternal \in mergeIfAny(loaded, external) }

\* C11: after a run that wrote the file, a run that loads that file and gets
\* the same events from both sources again merges to the size and the pairs
\* of what it loaded and detects no change (no-write path)
C11_Idempotence ==
  (RunDone /\ last.wrote) =>
    LET reloaded == loadExistingEvents(file).events
    IN  \A again \in mergedDatasets(reloaded, last.external, last.octopus) :
          /\ Len(again) = Len(reloaded)
          /\ Pairs(again) = Pairs(reloaded)
          /\ ~hasChanges(reloaded, again)

Fetched == fetched.n > 0
Got304 == Fetched /\ fetched.resp.kind = "http" /\ fetched.resp.status = 304
Got200 == Fetched /\ Decodable200(fetched.resp)

\* C13: on a 304 the fetcher returns, without error and without decoding a
\* body, the list the snapshot holds, which is the list the last 200 response
\* that stored one was converted to, in the same order; a stored list reads
\* back as itself
C13_ConditionalFetch ==
  /\ Got304 =>
       /\ ~fetched.err /\ ~fetched.decoded
       /\ fetched.events = getCachedEvents(fetched.eventsBefore).events
       /\ (fetched.snapshotFrom # 0 => fetched.events = fetched.stored)
  /\ (Fetched /\ eventsFile.state = "ok") =>
       getCachedEvents(eventsFile).events = fetched.stored

\* a 304 answered from a snapshot of two events, one with milliseconds
C13_Witness ==
  /\ Got304 /\ fetched.snapshotFrom = 1 /\ Len(fetched.events) = 2
  /\ fetched.events[1].StartAt.ms # 0
  /\ Before(fetched.events[1].StartAt, fetched.events[2].StartAt)

\* C14: after a 200 with a decodable body the cache holds the ETag and the
\* event list of that response; whenever a token is cached, the token and the
\* snapshot come from the same response
C14_CacheFromOneResponse ==
  /\ Got200 =>
       /\ etagFile = fetched.resp.etag
       /\ eventsFile.state = "ok"
       /\ getCachedEvents(eventsFile).events = fetched.events
  /\ (Fetched /\ etagFile # "") => fetched.tokenFrom = fetched.snapshotFrom

\* C15: the token sent is the token read from the cache before the request;
\* a call that did not get a 200 with a decodable body leaves the token file
\* and the snapshot file as they were
C15_CacheFrame ==
  Fetched =>
    /\ fetched.ifNoneMatch = fetched.etagBefore
    /\ (~Decodable200(fetched.resp) =>
          etagFile = fetched.etagBefore /\ eventsFile = fetched.eventsBefore)

\* a second call, answered 304, 500, by a transport error or by a body that
\* does not decode, on a cache that holds a token and a snapshot
C15_Witness ==
  /\ Fetched /\ fetched.n = 2 /\ ~Decodable200(fetched.resp)
  /\ fetched.etagBefore = "e1" /\ fetched.ifNoneMatch = "e1"
  /\ fetched.eventsBefore.state = "ok" /\ Len(fetched.eventsBefore.data) = 2
  /\ etagFile = "e1" /\ eventsFile = fetched.eventsBefore

\* C16: a call that finds a token but no readable snapshot behaves as with no
\* cache: it sends no If-None-Match, and returns what the call on an empty
\* cache returns
C16_HalfWrittenCacheAbsent ==
  (Fetched /\ fetched.etagBefore # "" /\ fetched.eventsBefore.state # "ok") =>
    /\ fetched.ifNoneMatch = ""
    /\ LET r == fetchDavidKendallData("", AbsentCache, fetched.resp, fetched.disk)
       IN  fetched.events = r.events /\ fetched.err = r.err

\* C17: reading the cache gives no error (no token: nothing sent; a 304 on a
\* missing or undecodable snapshot: an empty list and success), and the
\* result of a 200 with a decodable body is the one of the same call with
\* successful cache writes, whatever the outcome of the writes
C17_CacheNeverFails ==
  Fetched =>
    /\ (fetched.etagBefore = "" => fetched.ifNoneMatch = "")
    /\ (Got304 => ~fetched.err)
    /\ ((Got304 /\ fetched.eventsBefore.state # "ok") => fetched.events = <<>>)
    /\ (Got200 =>
          /\ ~fetched.err
          /\ fetched.events =
               fetchDavidKendallData(fetched.etagBefore, fetched.eventsBefore,
                                     fetched.resp, DiskOk).events)

\* a 304 on a snapshot left undecodable by a failed write, after a 200 whose
\* writes failed: both calls returned without error
C17_Witness ==
  /\ Got304 /\ fetched.n = 2 /\ fetched.eventsBefore = CorruptCache
  /\ ~fetched.err /\ fetched.events = <<>>

\* the positions of the payload entries whose start and end parse
ParseableAt(data) == {i \in DOMAIN data : ParseOk(data[i].Start) /\ ParseOk(data[i].End)}

\* the position in the payload of the i-th entry that parses
NthParseable(data, i) ==
  CHOOSE k \in ParseableAt(data) :
    Cardinality({j \in ParseableAt(data) : j <= k}) = i

\* C18: on a 200 with a decodable body the fetcher returns, without error,
\* one event for each payload entry whose start and end parse, in payload
\* order and with the entry's times, code and test flag
C18_MalformedEntriesSkipped ==
  Got200 =>
    LET data == fetched.resp.data
    IN  /\ ~fetched.err
        /\ Len(fetched.events) = Cardinality(ParseableAt(data))
        /\ \A i \in DOMAIN fetched.events :
             LET entry == data[NthParseable(data, i)]
             IN  /\ fetched.events[i].StartAt = Time(entry.Start.wall, entry.Start.ms, 0)
                 /\ fetched.events[i].EndAt = Time(entry.End.wall, entry.End.ms, 0)
                 /\ fetched.events[i].Code = entry.Code
                 /\ fetched.events[i].IsTest = entry.IsTest

\* a payload whose first entry does not parse and whose second does
C18_Witness ==
  /\ Got200 /\ Len(fetched.resp.data) = 2
  /\ ~ParseOk(fetched.resp.data[1].Start)
  /\ ParseOk(fetched.resp.data[2].Start) /\ ParseOk(fetched.resp.data[2].End)
  /\ Len(fetched.events) = 1

Undecodable(f) ==
  \/ f.state = "corrupt"
  \/ f.state = "ok" /\ \E i \in DOMAIN f.data :
                         ~f.data[i].Start.ok \/ ~f.data[i].End.ok

\* C20: a run started on an output file that does not decode returns an
\* error in its first step: no fetch is started, nothing is loaded or
\* merged, and the output file and the cache stay as they are
C20_CorruptFileAborts ==
  [][ (pc = "idle" /\ runs' = runs + 1 /\ Undecodable(file)) =>
        /\ last'.ret = "err_load" /\ ~last'.wrote
        /\ file' = file /\ etagFile' = etagFile /\ eventsFile' = eventsFile
        /\ pc' = "idle" /\ octoTask' = octoTask /\ davidTask' = davidTask
        /\ octoTask' # "running" /\ davidTask' # "running"
        /\ results' = <<>> /\ existingEvents' = existingEvents
        /\ octopusEvents' = <<>> /\ externalEvents' = <<>>
    ]_vars

\* a second run has failed on an undecodable file next to a used cache
C20_Witness ==
  /\ RunDone /\ last.ret = "err_load" /\ runs = 2
  /\ Undecodable(file) /\ file = last.before
  /\ etagFile = "e1" /\ eventsFile = UsedCache
  /\ octoTask = "none" /\ davidTask = "none"

\* ------------------------------------------- properties of the fetch phase
Done(task) == IF task = "done" THEN 1 ELSE 0
Running(task) == task = "running"

\* C21: the merge starts only when both fetch tasks have sent their result
\* and the collector has received both; while a task is outstanding the run
\* has not returned, nothing is merged or written, and the file is the one
\* that was loaded
C21_WaitsForBothResults ==
  /\ pc = "merge" =>
       /\ octoTask = "done" /\ davidTask = "done"
       /\ collected = 2 /\ results = <<>>
  /\ pc = "collect" =>
       collected + Len(results) = Done(octoTask) + Done(davidTask)
  /\ (Running(octoTask) \/ Running(davidTask)) =>
       /\ pc = "collect" /\ collected < 2
       /\ last.ret = "none" /\ ~last.wrote /\ last.all = <<>>
       /\ existingEvents = loadExistingEvents(file).events

\* the merge is about to start with events from both sources
C21_Witness ==
  /\ pc = "merge" /\ octoTask = "done" /\ davidTask = "done"
  /\ Len(octopusEvents) >= 1 /\ Len(externalEvents) >= 1

\* C22 as stated: no load or save of the dataset and no write of the cache
\* happens in a step taken while a fetch task is running
C22_NothingDuringFetch ==
  [][ (file' # file \/ existingEvents' # existingEvents
         \/ etagFile' # etagFile \/ eventsFile' # eventsFile)
        => (~Running(octoTask) /\ ~Running(davidTask)) ]_vars

\* C22 amended: the dataset is loaded and saved only while no fetch task is
\* running; the cache is written only by the Secondary fetch task, in the
\* step in which that task completes
C22_StoreOutsideCacheInsideFetch ==
  [][ /\ (file' # file \/ existingEvents' # existingEvents)
           => (~Running(octoTask) /\ ~Running(davidTask))
      /\ (etagFile' # etagFile \/ eventsFile' # eventsFile)
           => (Running(davidTask) /\ davidTask' = "done"
                 /\ file' = file /\ existingEvents' = existingEvents) ]_vars

\* the Secondary task has written the cache and the Primary task is still
\* running
C22_Witness ==
  /\ pc = "collect" /\ Running(octoTask) /\ davidTask = "done"
  /\ etagFile = "e1" /\ eventsFile.state = "ok" /\ Len(eventsFile.data) >= 1
  /\ runs = 1

\* C23: a fetch task is started only by the start of a run and, once it has
\* sent its result, is not started again in that run; a source whose attempt
\* failed contributes no events to the run
C23_NoRetry ==
  /\ [][ /\ (Running(octoTask)' /\ ~Running(octoTask)) => runs' = runs + 1
         /\ (Running(davidTask)' /\ ~Running(davidTask)) => runs' = runs + 1
         /\ (octoTask = "done" /\ pc' # "idle") => octoTask' = "done"
         /\ (davidTask = "done" /\ pc' # "idle") => davidTask' = "done" ]_vars
  /\ [](RunMerged =>
          /\ (last.octopusErr => last.octopus = <<>>)
          /\ (last.externalErr => last.external = <<>>))

\* a second run in which both sources failed has returned
C23_Witness ==
  /\ RunMerged /\ runs = 2 /\ last.octopusErr /\ last.externalErr
  /\ Len(last.loaded) >= 1 /\ last.all = last.loaded /\ file = last.before

\* ------------------------------------------------ properties of the save
\* C24: after any run, also one that returned the write error, the output
\* file is what it was before the run or the complete dataset of the run
\* with at least as many events
C24_AtomicOrAborted ==
  RunDone =>
    \/ file = last.before
    \/ /\ file.state = "ok"
       /\ file = saveEvents(last.final)
       /\ Count(file) >= Count(last.before)

\* C25: whenever Primary contributed no events to a run, its fetch had
\* returned an error to the collector: a query that succeeds with zero events
\* is an error too
C25_EmptyPrimaryIsError ==
  (RunMerged /\ last.octopus = <<>>) => last.octopusErr

Saved == saved.step \in {"saved", "loaded"}

\* the file was read back
Loaded == saved.step = "loaded"

\* every timestamp of the dataset is in UTC
AllUTC(events) ==
  \A i \in DOMAIN events : events[i].StartAt.off = 0 /\ events[i].EndAt.off = 0

\* C26: in the published file is_test appears only when the event's flag is
\* true: an event whose flag is false or unset is written without the field
\* (nil), and is_test is never rendered as false
C26_IsTestOnlyWhenTrue ==
  Saved =>
    /\ Len(saved.testFile.data) = Len(saved.events)
    /\ \A i \in DOMAIN saved.events :
         /\ saved.testFile.data[i].IsTest # "false"
         /\ saved.events[i].IsTest # "true" =>
              saved.testFile.data[i].IsTest = "nil"
         /\ saved.events[i].IsTest = "true" =>
              saved.testFile.data[i].IsTest = "true"

\* C27: save then load is a round trip: for a dataset of events with
\* millisecond-precision UTC timestamps, loadExistingEvents of the file
\* saveEvents wrote returns without error the same number of events with
\* the same startAt, endAt, code and isTest in the same order
C27_SaveLoadRoundTrip ==
  (Loaded /\ AllUTC(saved.events)) =>
    /\ saved.err = "nil"
    /\ Len(saved.loadedEvents) = Len(saved.events)
    /\ \A i \in DOMAIN saved.events :
         /\ saved.loadedEvents[i].StartAt = saved.events[i].StartAt
         /\ saved.loadedEvents[i].EndAt = saved.events[i].EndAt
         /\ saved.loadedEvents[i].Code = saved.events[i].Code
         /\ saved.loadedEvents[i].IsTest = saved.events[i].IsTest

\* two UTC events with a sub-second part, different codes and flags, later
\* one first, were saved and read back
C27_Witness ==
  /\ Loaded
  /\ AllUTC(saved.events)
  /\ Len(saved.events) = 2
  /\ Len(saved.loadedEvents) = 2
  /\ saved.events[1].StartAt.ms = 500
  /\ Before(saved.events[2].StartAt, saved.events[1].StartAt)
  /\ saved.events[1].Code # saved.events[2].Code
  /\ saved.events[1].IsTest = "true"
  /\ saved.events[2].IsTest = "nil"

\* the value the configuration file gives for a key: none when no file was
\* named or the file lacks the key
FileValue(key) ==
  IF config.flags.configFile = "" \/ key = NoKey THEN "" ELSE key

\* flag when non-empty, otherwise file value when non-empty, otherwise
\* environment variable
Priority(flagValue, fileValue, envValue) ==
  IF flagValue # "" THEN flagValue
  ELSE IF fileValue # "" THEN fileValue
  ELSE envValue

ExpectedAccount ==
  Priority(config.flags.accountNumber, FileValue(config.data.accountNumber),
           config.env.ACCOUNT_NUMBER)
ExpectedMeter ==
  Priority(config.flags.meterPointID, FileValue(config.data.meterPointID),
           config.env.METER_POINT_ID)
ExpectedKey ==
  Priority(config.flags.apiKey, FileValue(config.data.apiKey),
           config.env.OCTOPUS_API_KEY)

\* loadConfig returned and, if a configuration file was named, could read it
ConfigLoaded ==
  /\ config.called
  /\ (config.flags.configFile = "" \/ config.data.readable)

\* C29: for the account number, the meter point ID and the API key,
\* loadConfig takes the flag when it is non-empty, otherwise the value of
\* the configuration file when it is non-empty, otherwise the environment
\* variable; it returns an error when the resulting API key, account number
\* or meter point ID is empty, reporting the first missing one in that order
C29_ConfigPriority ==
  ConfigLoaded =>
    IF ExpectedKey = "" THEN config.err = "API key is required"
    ELSE IF ExpectedAccount = "" THEN config.err = "account number is required"
    ELSE IF ExpectedMeter = "" THEN config.err = "meter point ID is required"
    ELSE /\ config.err = "nil"
         /\ config.config.AccountNumber = ExpectedAccount
         /\ config.config.MeterPointID = ExpectedMeter
         /\ config.config.APIKey = ExpectedKey

\* the account number came from the flag although the file and the
\* environment have one, the meter point from the file although the
\* environment has one, and the key from the environment
C29_Witness ==
  /\ ConfigLoaded
  /\ config.err = "nil"
  /\ config.flags.configFile # ""
  /\ config.flags.accountNumber = "flag"
  /\ config.data.accountNumber = "file"
  /\ config.env.ACCOUNT_NUMBER = "env"
  /\ config.config.AccountNumber = "flag"
  /\ config.flags.meterPointID = ""
  /\ config.env.METER_POINT_ID = "env"
  /\ config.config.MeterPointID = "file"
  /\ config.flags.apiKey = ""
  /\ config.data.apiKey = NoKey
  /\ config.config.APIKey = "env"

\* C30: when the -output flag is given and the configuration file also sets
\* outputFile, loadConfig returns the flag's value as Config.OutputFile
C30_OutputFlagWins ==
  ( /\ ConfigLoaded
    /\ config.err = "nil"
    /\ config.flags.outputFile # DefaultOutput
    /\ config.flags.configFile # ""
    /\ config.data.outputFile \notin {NoKey, ""} )
  => config.config.OutputFile = config.flags.outputFile

\* caller p has returned from a call of Run
Returned(p) == calls[p].pc = "idle" /\ calls[p].n > 0

\* what the deciding test saw: no token, or one that expires within the
\* next 5 minutes
Expiring(h) == h.token = 0 \/ h.at + Buffer >= h.tokenExpiry

\* C31: Run obtains a new token before sending the query whenever no token
\* is held or the held token expires within the next 5 minutes, and reuses
\* the held token without a token request otherwise; if obtaining the token
\* fails, Run returns the error and the query is not sent
C31_TokenBeforeQuery ==
  \A p \in Callers :
    Returned(p) =>
      IF Expiring(calls[p].held)
      THEN \/ /\ calls[p].trace = <<"obtainKrakenToken", "query">>
              /\ calls[p].ret \in {"nil", "query failed"}
              /\ calls[p].token # 0
              /\ calls[p].token \in {issued[i].token : i \in DOMAIN issued}
           \/ /\ calls[p].trace = <<"obtainKrakenToken">>
              /\ calls[p].ret = "failed to ensure valid token"
      ELSE /\ calls[p].trace = <<"query">>
           /\ calls[p].ret \in {"nil", "query failed"}
           /\ calls[p].token # 0
           /\ calls[p].token \in {issued[i].token : i \in DOMAIN issued}

\* one caller made two calls: the first obtained a token, and the second, 5
\* minutes later, reused it without a token request; the other caller's
\* token request failed
C31_Witness ==
  /\ Returned(1)
  /\ calls[1].n = 2
  /\ ~Expiring(calls[1].held)
  /\ calls[1].held.at = 1
  /\ calls[1].trace = <<"query">>
  /\ Len(issued) = 1
  /\ calls[1].token = issued[1].token
  /\ Returned(2)
  /\ calls[2].ret = "failed to ensure valid token"

\* every caller is in its first call of Run or has returned from it
FirstCalls == \A p \in Callers : calls[p].n = 1

\* C32: when several callers invoke Run concurrently on a client that holds
\* no valid token, no token request fails and the token obtained is valid
\* for more than 5 minutes (it still is now), the token is obtained exactly
\* once and every caller
\* sends its query with that token; no caller reads the token while it is
\* being replaced
C32_TokenObtainedOnce ==
  /\ ( /\ FirstCalls
       /\ \A p \in Callers : Returned(p)
       /\ \A p \in Callers : calls[p].ret # "failed to ensure valid token"
       /\ Len(issued) >= 1
       /\ now + Buffer < issued[1].tokenExpiry )
     => /\ Len(issued) = 1
        /\ \A p \in Callers :
             /\ calls[p].trace[Len(calls[p].trace)] = "query"
             /\ calls[p].token = issued[1].token
  /\ \A p \in Callers : \A q \in Callers :
       calls[p].pc \in {"check", "read"} =>
         calls[q].pc \notin {"recheck", "obtain", "store"}

\* both callers found no valid token in the first test; caller 1 obtained
\* the token, and caller 2 found it under the write lock and sent its query
\* with it without a token request
C32_Witness ==
  /\ FirstCalls
  /\ \A p \in Callers : Returned(p)
  /\ Len(issued) = 1
  /\ now + Buffer < issued[1].tokenExpiry
  /\ issued[1].by = 1
  /\ calls[1].trace = <<"obtainKrakenToken", "query">>
  /\ calls[2].trace = <<"query">>
  /\ calls[2].locked
  /\ calls[2].held.token = issued[1].token
  /\ calls[2].token = issued[1].token

\* the events a result stands for: none when it is an error
Used(result) == IF result.err THEN <<>> ELSE result.events

\* both orders were collected and merged
Merged == trial.step = "merged"

\* C33: the outcome of a run does not depend on which fetch task delivers
\* its result first: for the same loaded dataset and the same two results,
\* both arrival orders attribute each result to the right source and give
\* the same merged datasets, write decisions and return values
C33_ArrivalOrderIrrelevant ==
  Merged =>
    /\ \A got \in {trial.octopusFirst, trial.davidFirst} :
         /\ got.octopusEvents = Used(trial.octopus)
         /\ got.octopusErr = trial.octopus.err
         /\ got.externalEvents = Used(trial.david)
         /\ got.externalErr = trial.david.err
    /\ trial.octopusFirst = trial.davidFirst
    /\ trial.outcomesOctopusFirst = trial.outcomesDavidFirst

\* both sources returned events, different ones, and the run writes them
C33_Witness ==
  /\ Merged
  /\ Len(Used(trial.octopus)) = 2
  /\ Len(Used(trial.david)) = 1
  /\ Pairs(Used(trial.octopus)) \cap Pairs(Used(trial.david)) = {}
  /\ trial.existing = <<>>
  /\ \E o \in trial.outcomesDavidFirst : o.wrote /\ Len(o.final) = 3

\* every timestamp is a whole second in UTC, so that the text key of an event
\* and its pair of instants say the same
WholeSecondsUTC(events) ==
  \A i \in DOMAIN events :
    /\ events[i].StartAt.ms = 0 /\ events[i].StartAt.off = 0
    /\ events[i].EndAt.ms = 0 /\ events[i].EndAt.off = 0

\* C36: a run is deterministic: given the same loaded dataset and the same
\* Secondary and Primary results, every run writes the same dataset, with
\* the same event order and the same code for each event, including when two
\* events have the same startAt and different endAt
C36_Deterministic ==
  ( /\ Merged
    /\ WholeSecondsUTC(trial.existing)
    /\ WholeSecondsUTC(Used(trial.octopus))
    /\ WholeSecondsUTC(Used(trial.david)) )
  => \A o1 \in trial.outcomesOctopusFirst :
     \A o2 \in trial.outcomesOctopusFirst :
       /\ o1.wrote = o2.wrote
       /\ o1.ret = o2.ret
       /\ o1.wrote => o1.final = o2.final

\* C39: mergeEvents and hasChanges treat two events as the same event
\* exactly when their startAt and their endAt are equal as millisecond-
\* precision UTC instants: merging a dataset of one event with a source list
\* of one event keeps both and reports a change if the pairs differ (also
\* only in the millisecond part), and keeps one and reports no change if the
\* two events denote the same instants
C39_KeyIsPairOfInstants ==
  ( /\ Merged
    /\ Len(trial.existing) = 1
    /\ Len(Used(trial.octopus)) = 1
    /\ Len(Used(trial.david)) = 0 )
  => LET a == trial.existing[1]
         b == Used(trial.octopus)[1]
     IN  \A o \in trial.outcomesOctopusFirst :
           IF pairOf(a) = pairOf(b)
           THEN Len(o.all) = 1 /\ ~o.changed
           ELSE Len(o.all) = 2 /\ o.changed

\* no two events of the dataset have the same pair of instants
DistinctPairs(events) == Cardinality(Pairs(events)) = Len(events)

\* C35: if the loaded dataset has pairwise distinct keys, the merged dataset
\* always contains every loaded key, so the safety check never fails,
\* whatever the two sources return
C35_SafetyOnlyFromDuplicates ==
  (Merged /\ DistinctPairs(trial.existing)) =>
    \A o \in trial.outcomesOctopusFirst :
      /\ Pairs(trial.existing) \subseteq Pairs(o.all)
      /\ o.ret # "err_safety"

\* C37: a run in which every event returned by the sources has a key already
\* present in the loaded dataset never writes the file, even when a source's
\* copy of an event differs from the stored copy in isTest or code
C37_KnownKeysNeverWrite ==
  ( /\ RunMerged
    /\ Pairs(last.external) \cup Pairs(last.octopus) \subseteq Pairs(last.loaded) )
  => (~last.wrote /\ file = last.before)

C34_RunTerminates ==
  /\ []( (Running(octoTask) \/ Running(davidTask)) =>
            Len(results) < ChannelCap )
  /\ []( pc # "idle" =>
            collected + Len(results) = Done(octoTask) + Done(davidTask) )
  /\ []( RunMerged => /\ ~Running(octoTask) /\ ~Running(davidTask)
                      /\ results = <<>> )
  /\ (pc = "collect") ~> RunMerged

\* both tasks have sent before the collector received anything: the channel
\* holds two results
C34_Witness ==
  /\ pc = "collect"
  /\ collected = 0
  /\ Len(results) = 2
  /\ octoTask = "done"
  /\ davidTask = "done"
  /\ results[1].source = "david_kendall"

====
